---- MODULE Spec2Model ----
(***************************************************************************)
(* Dynamic validation schemas (schemas.ts, two-flag and single-flag        *)
(* variants) and the two Demo form components that use them.               *)
(*                                                                         *)
(* A JavaScript string is a sequence of one-character strings, so that     *)
(* .length is Len.  A JavaScript value is a tagged record: a string or     *)
(* undefined.  A zod schema is a record interpreted by ParseValue.         *)
(***************************************************************************)
EXTENDS Integers, Sequences, FiniteSets, TLC

VARIABLES
    \* --- schema harness: one call of a validation function -------------
    config,          \* FieldConfiguration handed to validateFormData
    data,            \* Partial<DynamicFormData> handed to validateFormData
    called,          \* which function has been applied ("none" before)
    result,          \* what safeParse returned
    \* --- Demo component (one mounted page) ------------------------------
    component,       \* "static" (fixed formSchema) or "dynamic" (presetSchemas)
    fieldControls,   \* useState: which fields are shown / validated
    formValues,      \* react-hook-form field values
    isValid,         \* formState.isValid
    isDirty,         \* formState.isDirty
    submittedData,   \* useState: last submitted data or null
    lastEvent,       \* the event handled last
    \* --- repeatable field list (names / assignments of the field-array form)
    entries,         \* the values of the list's entries, in order
    listCall         \* the list operation performed last and its outcome

harnessVars == <<config, data, called, result>>
demoVars == <<component, fieldControls, formValues, isValid, isDirty,
              submittedData, lastEvent>>
listVars == <<entries, listCall>>
vars == <<config, data, called, result, component, fieldControls, formValues,
          isValid, isDirty, submittedData, lastEvent, entries, listCall>>

(***************************************************************************)
(* Bounds and program constants                                            *)
(***************************************************************************)
MaxLen == 501            \* longest string tried
MaxEntries == 3          \* longest repeatable list tried

NameMin == 1
NameMax == 50
DescriptionMin == 6
DescriptionMax == 500
StaticDescriptionMin == 1

(***************************************************************************)
(* JavaScript values                                                       *)
(***************************************************************************)
Undefined == [type |-> "undefined"]
String(s) == [type |-> "string", chars |-> s]
IsString(v) == v.type = "string"
Length(v) == Len(v.chars)
EmptyString == String(<< >>)

\* slip: && written for ||
OrElse_and(a, b) == IF a = Undefined \/ a = EmptyString THEN a ELSE b

\* a || b for a string-or-undefined a: undefined and '' are falsy
OrElse(a, b) == IF a = Undefined \/ a = EmptyString THEN b ELSE a

Rep(c, n) == String([i \in 1..n |-> c])

Fields == <<"name", "description">>
FieldSet == {"name", "description"}

(***************************************************************************)
(* zod                                                                     *)
(***************************************************************************)
ZodMin(n, msg) == [kind |-> "min", value |-> n, message |-> msg]
ZodMax(n, msg) == [kind |-> "max", value |-> n, message |-> msg]
ZodString(checks) == [typeName |-> "ZodString", checks |-> checks]
ZodOptional(inner) == [typeName |-> "ZodOptional", innerType |-> inner]
ZodDefault(inner, d) ==
    [typeName |-> "ZodDefault", innerType |-> inner, defaultValue |-> d]

\* slip: the maximum is exclusive
CheckFails_exclusiveMax(check, v) ==
    \/ check.kind = "min" /\ Length(v) < check.value
    \/ check.kind = "max" /\ Length(v) >= check.value

RECURSIVE TrimLeft(_)
TrimLeft(s) == IF s # << >> /\ Head(s) = " " THEN TrimLeft(Tail(s)) ELSE s
RECURSIVE TrimRight(_)
TrimRight(s) ==
    IF s # << >> /\ s[Len(s)] = " " THEN TrimRight(SubSeq(s, 1, Len(s) - 1))
    ELSE s

\* slip: the length is measured after trimming
CheckFails_trimmed(check, v) ==
    LET n == Len(TrimLeft(TrimRight(v.chars)))
    IN  \/ check.kind = "min" /\ n < check.value
        \/ check.kind = "max" /\ n > check.value

\* ZodString._parse, one check: min fails below value, max fails above it
CheckFails(check, v) ==
    \/ check.kind = "min" /\ Length(v) < check.value
    \/ check.kind = "max" /\ Length(v) > check.value

\* ZodString._parse: every check is evaluated, none aborts the others
CheckIssues(checks, v) ==
    LET failed == SelectSeq(checks, LAMBDA c : CheckFails(c, v))
    IN  [i \in 1..Len(failed) |->
            [code |-> IF failed[i].kind = "min" THEN "too_small" ELSE "too_big",
             message |-> failed[i].message]]

InvalidType == [code |-> "invalid_type", message |-> "Required"]

RECURSIVE ParseValue(_, _)
ParseValue(schema, v) ==
    CASE schema.typeName = "ZodString" ->
            IF IsString(v)
            THEN [issues |-> CheckIssues(schema.checks, v), value |-> v]
            ELSE [issues |-> << InvalidType >>, value |-> v]
      [] schema.typeName = "ZodOptional" ->
            IF v = Undefined
            THEN [issues |-> << >>, value |-> Undefined]
            ELSE ParseValue(schema.innerType, v)
      [] schema.typeName = "ZodDefault" ->
            ParseValue(schema.innerType,
                       IF v = Undefined THEN schema.defaultValue ELSE v)

WithPath(key, issues) ==
    [i \in 1..Len(issues) |->
        [path |-> << key >>, code |-> issues[i].code,
         message |-> issues[i].message]]

\* slip: parsing stops at the first key that has an issue
RECURSIVE ObjectIssues_failFast(_, _, _)
ObjectIssues_failFast(shape, input, i) ==
    IF i > Len(Fields) THEN << >>
    ELSE LET here == WithPath(Fields[i],
                        ParseValue(shape[Fields[i]], input[Fields[i]]).issues)
         IN  IF here # << >> THEN here
             ELSE ObjectIssues_failFast(shape, input, i + 1)

\* ZodObject._parse: the keys of the shape in declared order; the issues of
\* all keys are collected
RECURSIVE ObjectIssues(_, _, _)
ObjectIssues(shape, input, i) ==
    IF i > Len(Fields) THEN << >>
    ELSE WithPath(Fields[i], ParseValue(shape[Fields[i]], input[Fields[i]]).issues)
         \o ObjectIssues(shape, input, i + 1)

ObjectValue(shape, input) ==
    [k \in FieldSet |-> ParseValue(shape[k], input[k]).value]

\* a schema: z.object(shape), optionally followed by .transform that applies
\* `|| ''` to the keys in orEmpty
ZodObject(shape, orEmpty) == [shape |-> shape, orEmpty |-> orEmpty]

Transform(schema, parsed) ==
    [k \in FieldSet |->
        IF k \in schema.orEmpty THEN OrElse(parsed[k], EmptyString)
        ELSE parsed[k]]

Success(d) == [success |-> TRUE, data |-> d]
Failure(issues) == [success |-> FALSE, error |-> [issues |-> issues]]

safeParse(schema, input) ==
    LET issues == ObjectIssues(schema.shape, input, 1)
    IN  IF issues = << >>
        THEN Success(Transform(schema, ObjectValue(schema.shape, input)))
        ELSE Failure(issues)

(***************************************************************************)
(* schemas.ts, two-flag variant                                            *)
(***************************************************************************)
\* slip: the optional rule keeps the maximum of the required rule
schemaConfigs_boundedOptional ==
    [name |->
        [required |-> ZodString(<<ZodMin(NameMin, "Name is required"),
                                  ZodMax(NameMax, "Name must be less than 50 characters")>>),
         optional |-> ZodDefault(ZodOptional(ZodString(
                          <<ZodMax(NameMax, "Name must be less than 50 characters")>>)),
                          EmptyString)],
     description |->
        [required |-> ZodString(<<ZodMin(DescriptionMin, "Description must be at least 6 characters"),
                                  ZodMax(DescriptionMax, "Description must be less than 500 characters")>>),
         optional |-> ZodDefault(ZodOptional(ZodString(
                          <<ZodMax(DescriptionMax, "Description must be less than 500 characters")>>)),
                          EmptyString)]]

schemaConfigs ==
    [name |->
        [required |-> ZodString(<<ZodMin(NameMin, "Name is required"),
                                  ZodMax(NameMax, "Name must be less than 50 characters")>>),
         optional |-> ZodDefault(ZodOptional(ZodString(<< >>)), EmptyString)],
     description |->
        [required |-> ZodString(<<ZodMin(DescriptionMin, "Description must be at least 6 characters"),
                                  ZodMax(DescriptionMax, "Description must be less than 500 characters")>>),
         optional |-> ZodDefault(ZodOptional(ZodString(<< >>)), EmptyString)]]

\* slip: the description condition is inverted
createDynamicSchema_inverted(cfg) ==
    LET nameSchema == IF cfg.name THEN schemaConfigs.name.required
                      ELSE schemaConfigs.name.optional
        descriptionSchema == IF ~cfg.description
                             THEN schemaConfigs.description.required
                             ELSE schemaConfigs.description.optional
    IN  ZodObject([name |-> nameSchema, description |-> descriptionSchema],
                  {"name", "description"})

\* slip: optional fields without .default('') and without the transform
createDynamicSchema_noNormalise(cfg) ==
    LET nameSchema == IF cfg.name THEN schemaConfigs.name.required
                      ELSE ZodOptional(ZodString(<< >>))
        descriptionSchema == IF cfg.description
                             THEN schemaConfigs.description.required
                             ELSE ZodOptional(ZodString(<< >>))
    IN  ZodObject([name |-> nameSchema, description |-> descriptionSchema], {})

createDynamicSchema(cfg) ==
    LET nameSchema == IF cfg.name THEN schemaConfigs.name.required
                      ELSE schemaConfigs.name.optional
        descriptionSchema == IF cfg.description
                             THEN schemaConfigs.description.required
                             ELSE schemaConfigs.description.optional
    IN  ZodObject([name |-> nameSchema, description |-> descriptionSchema],
                  {"name", "description"})

presetSchemas ==
    [full |-> createDynamicSchema([name |-> TRUE, description |-> TRUE]),
     minimal |-> createDynamicSchema([name |-> FALSE, description |-> FALSE]),
     nameOnly |-> createDynamicSchema([name |-> TRUE, description |-> FALSE]),
     descriptionOnly |-> createDynamicSchema([name |-> FALSE, description |-> TRUE])]

getSchemaForConfiguration(cfg) == createDynamicSchema(cfg)

validateFormData(d, cfg) == safeParse(createDynamicSchema(cfg), d)

isValidFormData(d, cfg) == validateFormData(d, cfg).success

getDefaultValues == [name |-> EmptyString, description |-> EmptyString]

(***************************************************************************)
(* schemas.ts, single-flag variant (description is always shown)           *)
(***************************************************************************)
schemaConfigsSingle ==
    [name |->
        [required |-> ZodString(<<ZodMin(NameMin, "Name is required"),
                                  ZodMax(NameMax, "Name must be less than 50 characters")>>),
         optional |-> ZodDefault(ZodOptional(ZodString(<< >>)), EmptyString)],
     description |->
        [required |-> ZodString(<<ZodMin(DescriptionMin, "Description must be at least 6 characters"),
                                  ZodMax(DescriptionMax, "Description must be less than 500 characters")>>)]]

\* slip: the else branch makes description optional as well
createDynamicSchemaSingle_optionalDescription(cfg) ==
    IF cfg.name
    THEN ZodObject([name |-> schemaConfigsSingle.name.required,
                    description |-> schemaConfigsSingle.description.required],
                   {})
    ELSE ZodObject([name |-> ZodDefault(ZodOptional(ZodString(<< >>)), EmptyString),
                    description |-> ZodDefault(ZodOptional(ZodString(<< >>)), EmptyString)],
                   {"name", "description"})

createDynamicSchemaSingle(cfg) ==
    IF cfg.name
    THEN ZodObject([name |-> schemaConfigsSingle.name.required,
                    description |-> schemaConfigsSingle.description.required],
                   {})
    ELSE ZodObject([name |-> ZodDefault(ZodOptional(ZodString(<< >>)), EmptyString),
                    description |-> schemaConfigsSingle.description.required],
                   {"name"})

validateFormDataSingle(d, cfg) == safeParse(createDynamicSchemaSingle(cfg), d)

(***************************************************************************)
(* Demo with the fixed schema                                              *)
(***************************************************************************)
formSchema ==
    ZodObject(
        [name |-> ZodString(<<ZodMin(NameMin, "Name is required"),
                              ZodMax(NameMax, "Name must be less than 50 characters")>>),
         description |-> ZodString(<<ZodMin(StaticDescriptionMin, "Description is required"),
                                     ZodMax(DescriptionMax, "Description must be less than 500 characters")>>)],
        {})

(***************************************************************************)
(* Inputs tried                                                            *)
(***************************************************************************)
OkDesc == String(<<"o", "k", " ", "d", "e", "s", "c">>)
Anything == String(<<"a", "n", "y", "t", "h", "i", "n", "g">>)

BoundaryLens ==
    {0, NameMin, DescriptionMin - 1, DescriptionMin, NameMax, NameMax + 1,
     DescriptionMax, DescriptionMax + 1, MaxLen}

BoundaryValues ==
    {Undefined, OkDesc, Anything}
    \cup {Rep("a", n) : n \in BoundaryLens}
    \cup {Rep(" ", n) : n \in {NameMin, DescriptionMin, NameMax, NameMax + 1}}

AllValues == {Rep("a", n) : n \in 0..MaxLen}

TinyValues == {Undefined, EmptyString, OkDesc}

Inputs ==
    [name : BoundaryValues, description : BoundaryValues]
    \cup [name : AllValues, description : TinyValues]
    \cup [name : TinyValues, description : AllValues]

Configs == [name : BOOLEAN, description : BOOLEAN]

\* what the user types or pastes into a field of the form
EditValues ==
    {OkDesc, Rep(" ", NameMin)}
    \cup {Rep("a", n) : n \in {0, NameMin, DescriptionMin, NameMax + 1, MaxLen}}

Null == [type |-> "null"]
NoResult == [pending |-> TRUE]

(***************************************************************************)
(* Demo (dynamic): the preset selected for a configuration                 *)
(***************************************************************************)
\* slip: the two one-field presets are exchanged
createFormSchema_swapped(cfg) ==
    IF cfg.name /\ cfg.description THEN presetSchemas.full
    ELSE IF cfg.name /\ ~cfg.description THEN presetSchemas.descriptionOnly
    ELSE IF ~cfg.name /\ cfg.description THEN presetSchemas.nameOnly
    ELSE presetSchemas.minimal

createFormSchema(cfg) ==
    IF cfg.name /\ cfg.description THEN presetSchemas.full
    ELSE IF cfg.name /\ ~cfg.description THEN presetSchemas.nameOnly
    ELSE IF ~cfg.name /\ cfg.description THEN presetSchemas.descriptionOnly
    ELSE presetSchemas.minimal

(***************************************************************************)
(* Dynamic list controller of one repeatable field (names, assignments)    *)
(***************************************************************************)
Alice == String(<<"A", "l", "i", "c", "e">>)
Bob == String(<<"B", "o", "b">>)
EntryValues == {EmptyString, Alice, Bob}

ListCall(op, index, status) == [op |-> op, index |-> index, status |-> status]

\* a list starts with one empty entry
ListIdle ==
    /\ entries = << EmptyString >>
    /\ listCall = ListCall("init", 0, "ok")

RemoveIndex(seq, i) == SubSeq(seq, 1, i) \o SubSeq(seq, i + 2, Len(seq))

\* append(): a new empty entry at the end; returns its 0-based index
append ==
    /\ Len(entries) < MaxEntries
    /\ entries' = Append(entries, EmptyString)
    /\ listCall' = ListCall("append", Len(entries), "ok")

\* slip: the last entry can be removed as well
removeAt_unguarded(i) ==
    /\ i < Len(entries)
    /\ entries' = RemoveIndex(entries, i)
    /\ listCall' = ListCall("removeAt", i, "ok")

\* removeAt(i), i 0-based: refused with InvariantViolation on a list of one
\* entry, which is left unchanged; otherwise the later entries shift down
removeAt(i) ==
    /\ i < Len(entries)
    /\ IF Len(entries) > 1
       THEN /\ entries' = RemoveIndex(entries, i)
            /\ listCall' = ListCall("removeAt", i, "ok")
       ELSE /\ entries' = entries
            /\ listCall' = ListCall("removeAt", i, "InvariantViolation")

\* setValue(i, v): the entry is changed in place
setValue(i, v) ==
    /\ i < Len(entries)
    /\ entries' = [entries EXCEPT ![i + 1] = v]
    /\ listCall' = ListCall("setValue", i, "ok")

\* reset(): back to one empty entry
resetList ==
    /\ entries' = << EmptyString >>
    /\ listCall' = ListCall("reset", 0, "ok")

values == entries

(***************************************************************************)
(* Schema harness: one validation call on a chosen input                   *)
(***************************************************************************)
DemoIdle ==
    /\ component = "dynamic"
    /\ fieldControls = [name |-> TRUE, description |-> TRUE]
    /\ formValues = getDefaultValues
    /\ isValid = FALSE
    /\ isDirty = FALSE
    /\ submittedData = Null
    /\ lastEvent = "mount"

SchemaInit ==
    /\ config \in Configs
    /\ data \in Inputs
    /\ called = "none"
    /\ result = NoResult
    /\ DemoIdle
    /\ ListIdle

CallValidateFormData ==
    /\ called = "none"
    /\ called' = "validateFormData"
    /\ result' = validateFormData(data, config)
    /\ UNCHANGED <<config, data, demoVars, listVars>>

CallValidateFormDataSingle ==
    /\ called = "none"
    /\ called' = "validateFormDataSingle"
    /\ result' = validateFormDataSingle(data, [name |-> config.name])
    /\ UNCHANGED <<config, data, demoVars, listVars>>

CallFormSchema ==
    /\ called = "none"
    /\ called' = "formSchema"
    /\ result' = safeParse(formSchema, data)
    /\ UNCHANGED <<config, data, demoVars, listVars>>

\* the resolver of the dynamic Demo: the preset picked by createFormSchema
CallPresetSchema ==
    /\ called = "none"
    /\ called' = "createFormSchema"
    /\ result' = safeParse(createFormSchema(config), data)
    /\ UNCHANGED <<config, data, demoVars, listVars>>

SchemaNext ==
    \/ CallValidateFormData
    \/ CallValidateFormDataSingle
    \/ CallFormSchema
    \/ CallPresetSchema

SchemaSpec == SchemaInit /\ [][SchemaNext]_vars

(***************************************************************************)
(* Demo components: react-hook-form with mode 'onChange' and a zod resolver*)
(***************************************************************************)
defaultValues == [name |-> EmptyString, description |-> EmptyString]

\* the schema behind the resolver of the current render
resolverSchema ==
    IF component = "static" THEN formSchema ELSE createFormSchema(fieldControls)

\* a field's input is rendered (and can be edited) only while its control is on;
\* the static Demo always renders description
Rendered(f) ==
    IF component = "static" /\ f = "description" THEN TRUE ELSE fieldControls[f]

HarnessIdle ==
    /\ config = [name |-> TRUE, description |-> TRUE]
    /\ data = defaultValues
    /\ called = "none"
    /\ result = NoResult

Init ==
    /\ HarnessIdle
    /\ ListIdle
    /\ component \in {"static", "dynamic"}
    /\ fieldControls = IF component = "static" THEN [name |-> TRUE]
                       ELSE [name |-> TRUE, description |-> TRUE]
    /\ formValues = defaultValues
    /\ isValid = safeParse(resolverSchema, formValues).success
    /\ isDirty = FALSE
    /\ submittedData = Null
    /\ lastEvent = "mount"

\* typing into a rendered field: mode 'onChange' runs the resolver of the
\* current render on all values
onChange(f, v) ==
    /\ Rendered(f)
    /\ v # formValues[f]
    /\ formValues' = [formValues EXCEPT ![f] = v]
    /\ isValid' = safeParse(resolverSchema, formValues').success
    /\ isDirty' = (formValues' # defaultValues)
    /\ lastEvent' = "edit"
    /\ UNCHANGED <<component, fieldControls, submittedData, harnessVars, listVars>>

\* slip: unchecking a control also clears the field's value
toggleControl_clears(f) ==
    /\ f \in DOMAIN fieldControls
    /\ fieldControls' = [fieldControls EXCEPT ![f] = ~fieldControls[f]]
    /\ formValues' = IF fieldControls[f]
                     THEN [formValues EXCEPT ![f] = EmptyString]
                     ELSE formValues
    /\ lastEvent' = "toggle"
    /\ UNCHANGED <<component, isValid, isDirty, submittedData, harnessVars, listVars>>

\* checkbox onChange: setFieldControls only
toggleControl(f) ==
    /\ f \in DOMAIN fieldControls
    /\ fieldControls' = [fieldControls EXCEPT ![f] = ~fieldControls[f]]
    /\ lastEvent' = "toggle"
    /\ UNCHANGED <<component, formValues, isValid, isDirty, submittedData,
                   harnessVars, listVars>>

\* slip: reset keeps the current values
reset_keepValues ==
    /\ formValues' = formValues
    /\ isDirty' = FALSE
    /\ isValid' = safeParse(resolverSchema, formValues).success
    /\ lastEvent' = "reset"
    /\ UNCHANGED <<component, fieldControls, submittedData, harnessVars, listVars>>

\* Reset Form: reset() with no argument restores defaultValues; the form
\* re-validates them with the resolver of the current render
reset ==
    /\ formValues' = defaultValues
    /\ isDirty' = FALSE
    /\ isValid' = safeParse(resolverSchema, defaultValues).success
    /\ lastEvent' = "reset"
    /\ UNCHANGED <<component, fieldControls, submittedData, harnessVars, listVars>>

\* onSubmit of the dynamic Demo, called with the resolver's output
onSubmit(d) ==
    LET validationResult == validateFormData(d, fieldControls)
    IN  IF validationResult.success
        THEN [name |-> IF fieldControls.name
                       THEN OrElse(d.name, EmptyString) ELSE EmptyString,
              description |-> IF fieldControls.description
                              THEN OrElse(d.description, EmptyString)
                              ELSE EmptyString]
        ELSE submittedData

\* onSubmit of the static Demo
onSubmitStatic(d) == d

\* slip: the button stores the current values without handleSubmit and
\* without validateFormData
submit_unchecked ==
    /\ isValid
    /\ submittedData' =
          IF component = "static" THEN formValues
          ELSE [name |-> IF fieldControls.name THEN formValues.name
                         ELSE EmptyString,
                description |-> IF fieldControls.description
                                THEN formValues.description ELSE EmptyString]
    /\ lastEvent' = "submit"
    /\ UNCHANGED <<component, fieldControls, formValues, isValid, isDirty,
                   harnessVars, listVars>>

\* Submit Form (disabled while !isValid): handleSubmit runs the resolver and
\* calls onSubmit with its output only when it reports no error
submit ==
    /\ isValid
    /\ LET r == safeParse(resolverSchema, formValues)
       IN  submittedData' =
              IF r.success
              THEN IF component = "static" THEN onSubmitStatic(r.data)
                   ELSE onSubmit(r.data)
              ELSE submittedData
    /\ lastEvent' = "submit"
    /\ UNCHANGED <<component, fieldControls, formValues, isValid, isDirty,
                   harnessVars, listVars>>

Next ==
    \/ \E f \in FieldSet, v \in EditValues : onChange(f, v)
    \/ \E f \in FieldSet : toggleControl(f)
    \/ reset
    \/ submit

Spec == Init /\ [][Next]_vars

(***************************************************************************)
(* The list controller on its own                                          *)
(***************************************************************************)
ListInit ==
    /\ HarnessIdle
    /\ DemoIdle
    /\ ListIdle

ListNext ==
    /\ \/ append
       \/ \E i \in 0..(MaxEntries - 1) : removeAt(i)
       \/ \E i \in 0..(MaxEntries - 1), v \in EntryValues : setValue(i, v)
       \/ resetList
    /\ UNCHANGED <<harnessVars, demoVars>>

ListSpec == ListInit /\ [][ListNext]_vars

(***************************************************************************)
(* Properties                                                              *)
(***************************************************************************)
IssuePaths(r) ==
    IF r.success THEN {}
    ELSE {r.error.issues[i].path[1] : i \in 1..Len(r.error.issues)}

LengthIn(v, lo, hi) == IsString(v) /\ Len(v.chars) >= lo /\ Len(v.chars) <= hi

\* C1: a field whose flag is true fails validation when its value is the
\* empty string; a field whose flag is false never carries an error when it
\* is empty or absent.
C1_MonotonicRequired ==
    called = "validateFormData" =>
        \A f \in FieldSet :
            /\ (config[f] /\ data[f] = EmptyString) =>
                   (~result.success /\ f \in IssuePaths(result))
            /\ (~config[f] /\ data[f] \in {EmptyString, Undefined}) =>
                   f \notin IssuePaths(result)

C1_Witness ==
    /\ called = "validateFormData"
    /\ config.name /\ ~config.description
    /\ data.name = EmptyString /\ data.description = Undefined
    /\ IssuePaths(result) = {"name"}

\* C4 as stated: the output of a successful parse holds "" for every
\* field whose flag is false, whatever the input value was.
C4_InactiveAlwaysEmpty ==
    (called = "validateFormData" /\ result.success) =>
        \A f \in FieldSet : ~config[f] => result.data[f] = EmptyString

\* C4 amended: the output holds "" for an inactive field whose input was
\* absent or empty, and the input string itself when it was non-empty.
C4_InactiveNormalised ==
    (called = "validateFormData" /\ result.success) =>
        \A f \in FieldSet : ~config[f] =>
            result.data[f] = IF data[f] \in {Undefined, EmptyString}
                             THEN EmptyString ELSE data[f]

C4_Witness ==
    /\ called = "validateFormData"
    /\ ~config.name /\ ~config.description
    /\ data.name = Undefined /\ data.description = Anything
    /\ result.success
    /\ result.data.name = EmptyString /\ result.data.description = Anything

\* C5 as stated: every result of validateFormData carries a string for
\* name and for description.
C5_AlwaysStrings ==
    called \in {"validateFormData", "validateFormDataSingle"} =>
        /\ "data" \in DOMAIN result
        /\ \A f \in FieldSet : IsString(result.data[f])

\* C5 amended: every successful result carries a string for name and for
\* description, also when the input left a field absent; a failed result
\* carries issues and no data.
C5_StringsOnSuccess ==
    called \in {"validateFormData", "validateFormDataSingle"} =>
        IF result.success
        THEN \A f \in FieldSet : IsString(result.data[f])
        ELSE "data" \notin DOMAIN result /\ Len(result.error.issues) >= 1

C5_Witness ==
    /\ called = "validateFormData"
    /\ ~config.name /\ config.description
    /\ data.name = Undefined /\ data.description = OkDesc
    /\ result.success
    /\ result.data = [name |-> EmptyString, description |-> OkDesc]

DescriptionChecked ==
    \/ called = "validateFormData" /\ config.description
    \/ called \in {"validateFormDataSingle", "formSchema"}

\* C6 as stated: an active description is accepted exactly when its length
\* is between 1 and 500.
C6_Description1To500 ==
    (DescriptionChecked /\ IsString(data.description)) =>
        ("description" \notin IssuePaths(result)
            <=> LengthIn(data.description, 1, 500))

\* C6 amended: in the schema module (both variants) an active description
\* is accepted exactly when its length is between 6 and 500; only the fixed
\* form schema of the first Demo accepts lengths 1 to 500.
C6_Description6To500 ==
    (DescriptionChecked /\ IsString(data.description)) =>
        ("description" \notin IssuePaths(result)
            <=> LengthIn(data.description,
                         IF called = "formSchema" THEN 1 ELSE 6, 500))

C6_Witness ==
    /\ called = "validateFormData"
    /\ config.description
    /\ data.description = Rep("a", 500)
    /\ "description" \notin IssuePaths(result)

NameChecked ==
    \/ called \in {"validateFormData", "validateFormDataSingle"} /\ config.name
    \/ called = "formSchema"

\* C7: an active name is accepted exactly when its raw length is between 1
\* and 50; a string of spaces counts with its full length.
C7_Name1To50 ==
    (NameChecked /\ IsString(data.name)) =>
        ("name" \notin IssuePaths(result) <=> LengthIn(data.name, 1, 50))

C7_Witness ==
    /\ called = "validateFormData"
    /\ config.name
    /\ data.name = Rep(" ", 50)
    /\ "name" \notin IssuePaths(result)

\* C8: changing only the value of a field whose flag is false changes
\* neither the verdict nor the issues reported.
C8_InactiveIndependent ==
    called = "validateFormData" =>
        \A f \in FieldSet : ~config[f] =>
            \A v \in BoundaryValues :
                LET other == validateFormData([data EXCEPT ![f] = v], config)
                IN  /\ other.success = result.success
                    /\ ~result.success => other.error = result.error

C8_Witness ==
    /\ called = "validateFormData"
    /\ ~config.name /\ config.description
    /\ data.name = Rep("a", 501) /\ data.description = OkDesc
    /\ result.success

Violates(f, v) ==
    IF f = "name" THEN ~LengthIn(v, 1, 50) ELSE ~LengthIn(v, 6, 500)

ScenarioA ==
    /\ config = [name |-> TRUE, description |-> TRUE]
    /\ data = [name |-> EmptyString, description |-> OkDesc]

\* C9: validation succeeds exactly when there is no issue, and the fields
\* that carry an issue are exactly the active fields whose value breaks the
\* field's rule; Scenario A yields the single issue "Name is required".
C9_ErrorsExactlyViolations ==
    called = "validateFormData" =>
        /\ result.success <=> IssuePaths(result) = {}
        /\ IssuePaths(result) =
               {f \in FieldSet : config[f] /\ Violates(f, data[f])}
        /\ ScenarioA =>
               result = Failure(<<[path |-> <<"name">>, code |-> "too_small",
                                   message |-> "Name is required"]>>)

C9_Witness ==
    /\ called = "validateFormData"
    /\ config = [name |-> TRUE, description |-> TRUE]
    /\ data = [name |-> EmptyString, description |-> Rep("a", 501)]
    /\ IssuePaths(result) = {"name", "description"}

\* C10: in the single-flag schema description is validated with its
\* required rule whether config.name is true or false.
C10_DescriptionAlwaysRequired ==
    called = "validateFormDataSingle" =>
        /\ ("description" \in IssuePaths(result)
               <=> Violates("description", data.description))
        /\ (data.description = EmptyString \/ data.description = Rep("a", 501))
               => ~result.success

C10_Witness ==
    /\ called = "validateFormDataSingle"
    /\ ~config.name
    /\ data.name = Undefined /\ data.description = Rep("a", 501)
    /\ IssuePaths(result) = {"description"}

\* the rest of the form, without name, satisfies the rules in force
RestValid ==
    IF component = "static" THEN LengthIn(formValues.description, 1, 500)
    ELSE fieldControls.description => LengthIn(formValues.description, 6, 500)

\* C2: while the name toggle is off the verdict does not depend on the name
\* value: a form whose other fields are valid is valid.
C2_InactiveNameExempt ==
    (~fieldControls.name /\ RestValid) => isValid

\* C3: the valid flag of the dynamic form equals the validation of the
\* current values against the current configuration.
C3_NeverStale ==
    component = "dynamic" =>
        isValid = validateFormData(formValues, fieldControls).success

\* C11: a checkbox toggle leaves every form value unchanged, the toggled
\* field's own value and the other field's value.
C11_ToggleKeepsValues ==
    [][lastEvent' = "toggle" => formValues' = formValues]_vars

\* a field was switched off while it held input, and the input is still there
C11_Witness ==
    /\ component = "dynamic"
    /\ lastEvent = "toggle"
    /\ ~fieldControls.name
    /\ formValues.name = Rep("a", NameMin)
    /\ formValues.description = OkDesc

\* the snapshot validates against the schema and configuration in force
SnapshotValid ==
    /\ safeParse(resolverSchema, formValues).success
    /\ component = "dynamic" =>
           validateFormData(formValues, fieldControls).success

\* C12: submittedData changes only in a submit whose snapshot validates
\* against the configuration in force; a submit with an invalid snapshot
\* leaves submittedData unchanged.
C12_SubmitGated ==
    [][/\ submittedData' # submittedData =>
             (lastEvent' = "submit" /\ SnapshotValid)
       /\ (lastEvent' = "submit" /\ ~SnapshotValid) =>
             submittedData' = submittedData]_vars

\* Submit was enabled by a stale valid flag, the snapshot was invalid, and
\* nothing was stored
C12_Witness ==
    /\ component = "dynamic"
    /\ lastEvent = "submit"
    /\ isValid
    /\ ~validateFormData(formValues, fieldControls).success
    /\ submittedData = Null

InitialControls ==
    IF component = "static" THEN [name |-> TRUE]
    ELSE [name |-> TRUE, description |-> TRUE]

\* C13 as stated: after reset every field holds "" and the configuration
\* flags equal their initial values.
C13_ResetRestoresConfiguration ==
    lastEvent = "reset" =>
        (formValues = defaultValues /\ fieldControls = InitialControls)

\* C13 amended: reset sets name and description to "" and leaves the
\* configuration flags as they were before the reset.
C13_ResetKeepsConfiguration ==
    [][lastEvent' = "reset" =>
          (formValues' = defaultValues /\ fieldControls' = fieldControls)]_vars

C13_Witness ==
    /\ component = "dynamic"
    /\ lastEvent = "reset"
    /\ fieldControls = [name |-> FALSE, description |-> TRUE]
    /\ formValues = defaultValues
    /\ submittedData # Null

\* C14: for each of the four flag combinations the preset chosen by
\* createFormSchema gives, on every input, the verdict, issues and output of
\* the schema compiled by createDynamicSchema / getSchemaForConfiguration
\* for that configuration.
C14_PresetEqualsCompiled ==
    called = "createFormSchema" =>
        /\ result = validateFormData(data, config)
        /\ result = safeParse(getSchemaForConfiguration(config), data)

C14_Witness ==
    /\ called = "createFormSchema"
    /\ config = [name |-> TRUE, description |-> FALSE]
    /\ data = [name |-> Anything, description |-> Undefined]
    /\ result = Success([name |-> Anything, description |-> EmptyString])

\* C15: a repeatable field list always has at least one entry; removeAt
\* on a list of one entry is refused and leaves the list unchanged, and
\* removeAt on a list of two entries succeeds and leaves one entry.
C15_MinOne ==
    /\ [](Len(entries) >= 1)
    /\ [][listCall'.op = "removeAt" =>
            /\ Len(entries) = 1 =>
                  (listCall'.status = "InvariantViolation" /\ entries' = entries)
            /\ Len(entries) = 2 =>
                  (listCall'.status = "ok" /\ Len(entries') = 1)]_vars

\* Scenario C: removeAt(0) on ["Alice"] was refused
C15_Witness ==
    /\ listCall = ListCall("removeAt", 0, "InvariantViolation")
    /\ entries = << Alice >>

====
